---- MODULE Spec2Model ----
(***************************************************************************)
(* Persistence backend of the open-fps editor (src-tauri/src/commands.rs   *)
(* and src-tauri/src/lib.rs): the recent-projects registry, the project    *)
(* document store and the PNG <-> RGBA pixel codec.                        *)
(***************************************************************************)
EXTENDS Integers, Sequences, FiniteSets, TLC

(***************************************************************************)
(* Bounds of the model and program constants.                              *)
(***************************************************************************)
\* number of distinct project paths a caller may pass to add_recent_project
NumPaths == 11
\* number of distinct project paths a caller may pass to remove_recent_project
NumRemove == 2
\* number of registry commands executed in one behaviour
MaxOps == 3
\* paths.truncate(10)
MAX_RECENT == 10
\* number of distinct project paths in the files that list_recent_projects reads
NumListPaths == 3

Paths == 1..NumPaths
RemoveArgs == 1..NumRemove
ListPaths == 1..NumListPaths
\* the project paths that are directories directly under <app data>/projects
ProjectsDirChildren == {1, 2}

(***************************************************************************)
(* recent_projects.json as text.  The text is a sequence of tokens: the    *)
(* punctuation of a JSON array, string literals (one per path) and the     *)
(* newline-and-indent whitespace that the pretty printer emits.            *)
(***************************************************************************)
LBracket == [t |-> "[", v |-> 0]
RBracket == [t |-> "]", v |-> 0]
Comma == [t |-> ",", v |-> 0]
Newline == [t |-> "nl", v |-> 0]
Str(p) == [t |-> "str", v |-> p]

RECURSIVE PrettyItems(_, _)
PrettyItems(paths, i) ==
    IF i > Len(paths) THEN <<>>
    ELSE (IF i > 1 THEN <<Comma>> ELSE <<>>) \o <<Newline, Str(paths[i])>>
         \o PrettyItems(paths, i + 1)

\* serde_json::to_string_pretty(&Vec<String>): "[]" for the empty vector,
\* otherwise one indented string literal per line between the brackets.
to_string_pretty(paths) ==
    IF paths = <<>> THEN <<LBracket, RBracket>>
    ELSE <<LBracket>> \o PrettyItems(paths, 1) \o <<Newline, RBracket>>

IsWs(tok) == tok.t = "nl"
IsSignificant(tok) == ~IsWs(tok)

\* the elements between the brackets: literal (, literal)*
WellFormedItems(inner) ==
    \/ inner = <<>>
    \/ /\ Len(inner) % 2 = 1
       /\ \A i \in 1..Len(inner) :
            IF i % 2 = 1 THEN inner[i].t = "str" ELSE inner[i] = Comma

\* serde_json::from_str::<Vec<String>>(&content): whitespace is skipped, the
\* text must be exactly one array of string literals.
from_str(content) ==
    LET s == SelectSeq(content, IsSignificant)
        n == Len(s)
        inner == IF n >= 2 THEN SubSeq(s, 2, n - 1) ELSE <<>>
    IN IF /\ n >= 2
          /\ s[1] = LBracket
          /\ s[n] = RBracket
          /\ WellFormedItems(inner)
       THEN [ok |-> TRUE,
             val |-> [k \in 1..((Len(inner) + 1) \div 2) |-> inner[2 * k - 1].v]]
       ELSE [ok |-> FALSE, val |-> <<>>]

\* Result::unwrap_or_default for Vec<String>
unwrap_or_default(r) == IF r.ok THEN r.val ELSE <<>>

(***************************************************************************)
(* Vec<String> operations used by the registry.                            *)
(***************************************************************************)
RECURSIVE RetainInverted(_, _)
RetainInverted(paths, project_path) ==
    IF paths = <<>> THEN <<>>
    ELSE (IF Head(paths) = project_path THEN <<Head(paths)>> ELSE <<>>)
         \o RetainInverted(Tail(paths), project_path)

\* paths.retain(|p| p != &project_path)
RECURSIVE retain(_, _)
retain(paths, project_path) ==
    IF paths = <<>> THEN <<>>
    ELSE (IF Head(paths) /= project_path THEN <<Head(paths)>> ELSE <<>>)
         \o retain(Tail(paths), project_path)

\* paths.insert(0, project_path)
insert_front(paths, project_path) == <<project_path>> \o paths

TruncateOffByOne(paths, n) ==
    IF Len(paths) > n + 1 THEN SubSeq(paths, 1, n + 1) ELSE paths

\* paths.truncate(n)
truncate(paths, n) == IF Len(paths) > n THEN SubSeq(paths, 1, n) ELSE paths

(***************************************************************************)
(* Pixel codec: base64 text, u32 arithmetic, PNG scanlines.                *)
(***************************************************************************)
\* number of pixels (width * height) of the PNG files found on disk
MaxPixels == 2
\* longest pixel buffer, in bytes, a caller passes to write_png_rgba with
\* dimensions that do not come from a decoded image
MaxBufLen == 9

\* sample values of the PNG files found on disk
Samples == {0, 200}
\* width and height values a caller passes to write_png_rgba: 2^15, 2^16,
\* 2^30, 2^30 + 1 and 2^31 - 1 among them
Dims == {0, 1, 2, 3, 32768, 65536, 1073741824, 1073741825, 2147483647}

\* A base64 text is a sequence of sextet values 0..63, Pad for '=' and
\* NotBase64 for a character outside the alphabet.
Pad == 64
NotBase64 == 65

\* base64 STANDARD.encode(&bytes)
RECURSIVE b64_encode(_)
b64_encode(bytes) ==
    IF Len(bytes) = 0 THEN <<>>
    ELSE IF Len(bytes) = 1
    THEN <<bytes[1] \div 4, (bytes[1] % 4) * 16, Pad, Pad>>
    ELSE IF Len(bytes) = 2
    THEN <<bytes[1] \div 4, (bytes[1] % 4) * 16 + bytes[2] \div 16,
           (bytes[2] % 16) * 4, Pad>>
    ELSE <<bytes[1] \div 4, (bytes[1] % 4) * 16 + bytes[2] \div 16,
           (bytes[2] % 16) * 4 + bytes[3] \div 64, bytes[3] % 64>>
         \o b64_encode(SubSeq(bytes, 4, Len(bytes)))

IsSextet(c) == c \in 0..63

\* one group of four characters: [ok, val]
b64_group(g, last) ==
    IF IsSextet(g[1]) /\ IsSextet(g[2]) /\ IsSextet(g[3]) /\ IsSextet(g[4])
    THEN [ok |-> TRUE,
          val |-> <<g[1] * 4 + g[2] \div 16, (g[2] % 16) * 16 + g[3] \div 4,
                    (g[3] % 4) * 64 + g[4]>>]
    ELSE IF last /\ IsSextet(g[1]) /\ IsSextet(g[2]) /\ IsSextet(g[3]) /\ g[4] = Pad
                 /\ g[3] % 4 = 0
    THEN [ok |-> TRUE, val |-> <<g[1] * 4 + g[2] \div 16, (g[2] % 16) * 16 + g[3] \div 4>>]
    ELSE IF last /\ IsSextet(g[1]) /\ IsSextet(g[2]) /\ g[3] = Pad /\ g[4] = Pad
                 /\ g[2] % 16 = 0
    THEN [ok |-> TRUE, val |-> <<g[1] * 4 + g[2] \div 16>>]
    ELSE [ok |-> FALSE, val |-> <<>>]

\* base64 STANDARD.decode(&text): canonical padding is required
RECURSIVE b64_decode(_)
b64_decode(text) ==
    IF Len(text) = 0 THEN [ok |-> TRUE, val |-> <<>>]
    ELSE IF Len(text) < 4 THEN [ok |-> FALSE, val |-> <<>>]
    ELSE LET g == b64_group(SubSeq(text, 1, 4), Len(text) = 4)
             rest == b64_decode(SubSeq(text, 5, Len(text)))
         IN IF g.ok /\ rest.ok THEN [ok |-> TRUE, val |-> g.val \o rest.val]
            ELSE [ok |-> FALSE, val |-> <<>>]

\* A u32 is four base-256 digits, least significant first.
U32(n) == [i \in 0..3 |-> (n \div (256 ^ i)) % 256]

\* column sums of the schoolbook product, digit k
MulColumn(a, b, k) ==
    LET term(i) == IF k - i \in 0..3 THEN a[i] * b[k - i] ELSE 0
    IN term(0) + term(1) + term(2) + term(3)

\* the carries into digit k of a * b
RECURSIVE MulCarry(_, _, _)
MulCarry(a, b, k) ==
    IF k = 0 THEN 0 ELSE (MulColumn(a, b, k - 1) + MulCarry(a, b, k - 1)) \div 256

\* u32 multiplication in a release build: a.wrapping_mul(b)
wrapping_mul(a, b) == [k \in 0..3 |-> (MulColumn(a, b, k) + MulCarry(a, b, k)) % 256]

\* does a * b exceed u32::MAX (a debug build panics there)
mul_overflows(a, b) ==
    \/ MulCarry(a, b, 4) /= 0
    \/ \E k \in 4..6 : MulColumn(a, b, k) /= 0

Checked(a, b) == [overflow |-> mul_overflows(a, b), val |-> wrapping_mul(a, b)]

\* (width * height * 4) as usize, width and height u32
expected_len(width, height) ==
    LET wh == Checked(U32(width), U32(height))
        whc == Checked(wh.val, U32(4))
    IN [overflow |-> wh.overflow \/ whc.overflow, val |-> whc.val]

\* samples per pixel of a png::ColorType
channels(color_type) ==
    CASE color_type = "Grayscale" -> 1
      [] color_type = "GrayscaleAlpha" -> 2
      [] color_type = "Rgb" -> 3
      [] color_type = "Rgba" -> 4
      [] color_type = "Indexed" -> 1

\* bytes of one scanline of the image
line_size(ihdr) == ihdr.width * channels(ihdr.color_type) * (ihdr.bit_depth \div 8)

\* the image data of a PNG written without filtering: each scanline follows a
\* filter-type byte 0
RECURSIVE filter_none(_, _)
filter_none(data, row_bytes) ==
    IF Len(data) = 0 THEN <<>>
    ELSE <<0>> \o SubSeq(data, 1, row_bytes)
         \o filter_none(SubSeq(data, row_bytes + 1, Len(data)), row_bytes)

\* reader.next_frame(&mut buf): the scanlines of the file with their filter
\* bytes removed; a file whose data is cut short or carries another filter
\* byte than 0 does not decode in this model
RECURSIVE unfilter(_, _, _)
unfilter(idat, row_bytes, rows) ==
    IF rows = 0 THEN [ok |-> idat = <<>>, val |-> <<>>]
    ELSE IF Len(idat) < row_bytes + 1 \/ idat[1] /= 0 THEN [ok |-> FALSE, val |-> <<>>]
    ELSE LET rest == unfilter(SubSeq(idat, row_bytes + 2, Len(idat)), row_bytes, rows - 1)
         IN [ok |-> rest.ok, val |-> SubSeq(idat, 2, row_bytes + 1) \o rest.val]

RECURSIVE RgbToRgbaSwapped(_)
RgbToRgbaSwapped(rgb) ==
    IF Len(rgb) = 0 THEN <<>>
    ELSE <<rgb[3], rgb[2], rgb[1], 255>> \o RgbToRgbaSwapped(SubSeq(rgb, 4, Len(rgb)))

\* for chunk in rgb.chunks(3) { push chunk[0], chunk[1], chunk[2], 255 }
RECURSIVE rgb_to_rgba(_)
rgb_to_rgba(rgb) ==
    IF Len(rgb) = 0 THEN <<>>
    ELSE <<rgb[1], rgb[2], rgb[3], 255>> \o rgb_to_rgba(SubSeq(rgb, 4, Len(rgb)))

\* for chunk in ga.chunks(2) { push gray, gray, gray, alpha }
RECURSIVE ga_to_rgba(_)
ga_to_rgba(ga) ==
    IF Len(ga) = 0 THEN <<>>
    ELSE <<ga[1], ga[1], ga[1], ga[2]>> \o ga_to_rgba(SubSeq(ga, 3, Len(ga)))

\* for &gray in g { push gray, gray, gray, 255 }
RECURSIVE g_to_rgba(_)
g_to_rgba(g) ==
    IF Len(g) = 0 THEN <<>>
    ELSE <<g[1], g[1], g[1], 255>> \o g_to_rgba(Tail(g))

SupportedColorTypes == {"Rgba", "Rgb", "GrayscaleAlpha", "Grayscale"}

\* match info.color_type { ... }
rgba_pixels(color_type, buf) ==
    CASE color_type = "Rgba" -> buf
      [] color_type = "Rgb" -> rgb_to_rgba(buf)
      [] color_type = "GrayscaleAlpha" -> ga_to_rgba(buf)
      [] color_type = "Grayscale" -> g_to_rgba(buf)

(***************************************************************************)
(* The project filesystem.  A path is the sequence of its components, <<>> *)
(* is the filesystem root "/".  fs maps the paths that exist to a          *)
(* directory or to a file with its content.                                *)
(***************************************************************************)
PROJECT_FILE == "project.json"
MAP_FILE == "map.json"
SETTINGS_FILE == "settings.json"

Dir == [kind |-> "dir", data |-> ""]
File(data) == [kind |-> "file", data |-> data]

\* only "/" exists
EmptyFs == [p \in {<<>>} |-> Dir]

\* Path::exists
path_exists(f, p) == p \in DOMAIN f

is_dir(f, p) == p \in DOMAIN f /\ f[p].kind = "dir"

\* Path::parent: None for "/"
has_parent(p) == Len(p) > 0
parent_of(p) == SubSeq(p, 1, Len(p) - 1)

\* Path::join
join(p, rel) == p \o rel

IsPrefix(p, q) == Len(p) <= Len(q) /\ SubSeq(q, 1, Len(p)) = p

Prefixes(p) == {SubSeq(p, 1, k) : k \in 0..Len(p)}

StoreOk(f, val) == [fs |-> f, ok |-> TRUE, err |-> "", val |-> val]
StoreErr(f, msg) == [fs |-> f, ok |-> FALSE, err |-> msg, val |-> <<>>]

\* fs::create_dir_all(p): fails when a component of p is a regular file
create_dir_all(f, p) ==
    IF \E q \in Prefixes(p) : q \in DOMAIN f /\ f[q].kind = "file"
    THEN StoreErr(f, "io")
    ELSE StoreOk([q \in DOMAIN f \cup Prefixes(p) |-> IF q \in DOMAIN f THEN f[q] ELSE Dir],
                 <<>>)

\* fs::write(p, data): creates or overwrites the file; fails when the parent
\* is not a directory or p is a directory
fs_write(f, p, data) ==
    IF has_parent(p) /\ is_dir(f, parent_of(p)) /\ ~is_dir(f, p)
    THEN StoreOk([q \in DOMAIN f \cup {p} |-> IF q = p THEN File(data) ELSE f[q]], <<>>)
    ELSE StoreErr(f, "io")

Under(f, p) == {q \in DOMAIN f : IsPrefix(p, q)}

Rebase(q, old, new) == new \o SubSeq(q, Len(old) + 1, Len(q))

\* can rename(2) put `old` in the place of `new`
rename_allowed(f, old, new) ==
    /\ old \in DOMAIN f
    /\ has_parent(old) /\ has_parent(new)
    /\ is_dir(f, parent_of(new))
    /\ ~IsPrefix(old, new) \/ old = new
    /\ new \in DOMAIN f =>
          \/ f[old].kind = "file" /\ f[new].kind = "file"
          \/ f[old].kind = "dir" /\ f[new].kind = "dir" /\ Under(f, new) = {new}

\* fs::rename(old, new): the whole subtree moves
fs_rename(f, old, new) ==
    IF ~rename_allowed(f, old, new) THEN StoreErr(f, "io")
    ELSE IF old = new THEN StoreOk(f, <<>>)
    ELSE LET moved == {Rebase(q, old, new) : q \in Under(f, old)}
             kept == (DOMAIN f \ Under(f, old)) \ {new}
         IN StoreOk([q \in kept \cup moved |->
                        IF q \in moved THEN f[Rebase(q, new, old)] ELSE f[q]],
                    <<>>)

(***************************************************************************)
(* Document store commands, as functions of the filesystem: [fs, ok, ...]  *)
(***************************************************************************)
\* ensure_project_folder(&path)
ensure_project_folder(f, path) ==
    IF ~path_exists(f, path)
    THEN LET made == create_dir_all(f, path)
         IN IF made.ok THEN made ELSE StoreErr(f, "Failed to create project folder")
    ELSE StoreOk(f, <<>>)

\* is_valid_project(project_path)
is_valid_project(f, project_path) == path_exists(f, join(project_path, <<PROJECT_FILE>>))

\* save_project_metadata / save_project_map / save_project_settings
save_document(f, project_path, file_name, data, msg) ==
    LET ensured == ensure_project_folder(f, project_path)
    IN IF ~ensured.ok THEN ensured
       ELSE LET written == fs_write(ensured.fs, join(project_path, <<file_name>>), data)
            IN IF written.ok THEN written ELSE StoreErr(ensured.fs, msg)

SaveMetadataWithAssets(f, project_path, data) ==
    LET ensured == ensure_project_folder(f, project_path)
        assets == IF ensured.ok THEN create_dir_all(ensured.fs, join(project_path, <<"assets">>))
                  ELSE ensured
    IN save_document(assets.fs, project_path, PROJECT_FILE, data,
                     "Failed to save project metadata")

save_project_metadata_outcome(f, project_path, data) ==
    save_document(f, project_path, PROJECT_FILE, data, "Failed to save project metadata")

save_project_map_outcome(f, project_path, data) ==
    save_document(f, project_path, MAP_FILE, data, "Failed to save map data")

save_project_settings_outcome(f, project_path, data) ==
    save_document(f, project_path, SETTINGS_FILE, data, "Failed to save settings")

\* create_project(project_path, metadata)
create_project_outcome(f, project_path, metadata) ==
    LET ensured == ensure_project_folder(f, project_path)
        assets_path == join(project_path, <<"assets">>)
    IN IF ~ensured.ok THEN ensured
       ELSE LET made == IF ~path_exists(ensured.fs, assets_path)
                        THEN create_dir_all(ensured.fs, assets_path)
                        ELSE StoreOk(ensured.fs, <<>>)
            IN IF ~made.ok THEN StoreErr(ensured.fs, "Failed to create assets folder")
               ELSE LET written == fs_write(made.fs, join(project_path, <<PROJECT_FILE>>),
                                            metadata)
                    IN IF written.ok THEN written
                       ELSE StoreErr(made.fs, "Failed to write project metadata")

DestinationNeverOccupied(f, new_path) == FALSE

\* new_path.exists()
destination_occupied(f, new_path) == path_exists(f, new_path)

\* rename_project(old_path, new_name)
rename_project_outcome(f, old_path, new_name) ==
    IF ~has_parent(old_path) THEN StoreErr(f, "Cannot get parent directory")
    ELSE LET new_path == join(parent_of(old_path), new_name)
         IN IF destination_occupied(f, new_path) THEN StoreErr(f, "Folder already exists")
            ELSE LET renamed == fs_rename(f, old_path, new_path)
                 IN IF renamed.ok THEN StoreOk(renamed.fs, new_path)
                    ELSE StoreErr(f, "Failed to rename project")

(***************************************************************************)
(* State.                                                                  *)
(***************************************************************************)
VARIABLES
    app_data_dir,   \* does the application data directory exist
    recent_file,    \* recent_projects.json: [exists, content]
    project_file,   \* the project paths p for which p/project.json exists
    projects_dir,   \* does <app data>/projects exist
    start,          \* recent_projects.json as it was in the initial state
    ops,            \* number of registry commands executed so far
    hist,           \* the registry commands executed so far, oldest first
    pre,            \* the persisted registry state before the last command
    ret,            \* what the last command returned
    proc,           \* the registry mutations in progress: process -> [op, arg, pc, paths]
    wlog,           \* the File::create and write_all steps on the list file, oldest first
    png_parent,     \* does the parent directory of the PNG path exist
    png_file,       \* the file at the PNG path: [exists, header, ihdr, idat]
    clast,          \* the last codec command and its arguments
    cpre,           \* the PNG path's file and parent before the last codec command
    cret,           \* what the last codec command returned
    trip,           \* progress of a decode, encode, decode round trip
    fs,             \* the project filesystem: path -> [kind, data], existing paths only
    slast,          \* the last document-store command and its arguments
    spre,           \* the project filesystem before the last document-store command
    sret,           \* what the last document-store command returned
    sops            \* number of document-store commands executed so far

regvars == <<app_data_dir, recent_file, project_file, projects_dir, start, ops, hist,
             pre, ret, proc, wlog>>

codecvars == <<png_parent, png_file, clast, cpre, cret, trip>>

storevars == <<fs, slast, spre, sret, sops>>

vars == <<regvars, codecvars, storevars>>

AbsentFile == [exists |-> FALSE, content |-> <<>>]
FileWith(content) == [exists |-> TRUE, content |-> content]

Persisted == [app_data_dir |-> app_data_dir, recent_file |-> recent_file,
              projects_dir |-> projects_dir, project_file |-> project_file]

Ok(val) == [ok |-> TRUE, err |-> "", val |-> val]
Err(msg) == [ok |-> FALSE, err |-> msg, val |-> <<>>]

NoIhdr == [width |-> 0, height |-> 0, color_type |-> "Rgba", bit_depth |-> 8]

\* no file at the path
NoPng == [exists |-> FALSE, header |-> FALSE, ihdr |-> NoIhdr, idat |-> <<>>]
\* File::create(&path): the file exists and is empty
CreatedPng == [exists |-> TRUE, header |-> FALSE, ihdr |-> NoIhdr, idat |-> <<>>]
\* a file with signature, IHDR and image data
Png(ihdr, idat) == [exists |-> TRUE, header |-> TRUE, ihdr |-> ihdr, idat |-> idat]

CodecOk(b64, width, height) ==
    [ok |-> TRUE, err |-> "", b64 |-> b64, width |-> width, height |-> height]
CodecErr(msg) == [ok |-> FALSE, err |-> msg, b64 |-> <<>>, width |-> 0, height |-> 0]

NoTrip == [stage |-> "none", first |-> CodecErr(""), bit_depth |-> 0]

CodecIdle ==
    /\ png_parent = FALSE
    /\ png_file = NoPng
    /\ clast = [op |-> "none", b64 |-> <<>>, width |-> 0, height |-> 0]
    /\ cpre = [png_parent |-> FALSE, png_file |-> NoPng]
    /\ cret = CodecErr("")
    /\ trip = NoTrip

StoreIdle ==
    /\ fs = EmptyFs
    /\ slast = [op |-> "none", root |-> <<>>, data |-> "", new_name |-> <<>>]
    /\ spre = EmptyFs
    /\ sret = [ok |-> TRUE, err |-> "", val |-> <<>>]
    /\ sops = 0

\* the two commands that may run at the same time
Procs == {1, 2}

\* no registry mutation is in progress
NoMutation == [op |-> "none", arg |-> 0, pc |-> "done", paths |-> <<>>]

RaceIdle ==
    /\ proc = [p \in Procs |-> NoMutation]
    /\ wlog = <<>>

RegistryIdle ==
    /\ RaceIdle
    /\ app_data_dir = FALSE
    /\ recent_file = AbsentFile
    /\ project_file = {}
    /\ projects_dir = FALSE
    /\ start = AbsentFile
    /\ ops = 0
    /\ hist = <<>>
    /\ pre = Persisted
    /\ ret = Ok(<<>>)

\* a read that drops the entries whose project root lacks project.json
ReadExistingListPruned(file) ==
    IF file.exists
    THEN SelectSeq(unwrap_or_default(from_str(file.content)),
                   LAMBDA p : p \in project_file)
    ELSE <<>>

\* the list a registry mutation reads from a file: Vec::new() when the file
\* is absent, unwrap_or_default of the parse otherwise
read_existing_list(file) ==
    IF file.exists THEN unwrap_or_default(from_str(file.content)) ELSE <<>>

\* <<k, k-1, ..., 1>>: the list persisted by add_recent_project(1), ...,
\* add_recent_project(k) on an absent file
Descending(k) == [i \in 1..k |-> k + 1 - i]

InitRegistry ==
    /\ \/ /\ app_data_dir = FALSE
          /\ recent_file = AbsentFile
       \/ /\ app_data_dir = TRUE
          /\ recent_file \in {AbsentFile, FileWith(to_string_pretty(Descending(MAX_RECENT)))}
    /\ project_file = {}
    /\ projects_dir = FALSE
    /\ start = recent_file
    /\ ops = 0
    /\ hist = <<>>
    /\ pre = Persisted
    /\ ret = Ok(<<>>)
    /\ RaceIdle
    /\ CodecIdle
    /\ StoreIdle

Record(op, arg) ==
    /\ ops < MaxOps
    /\ ops' = ops + 1
    /\ hist' = Append(hist, [op |-> op, arg |-> arg])
    /\ pre' = Persisted
    /\ UNCHANGED <<start, proc, wlog, codecvars, storevars>>

(***************************************************************************)
(* add_recent_project (Touch)                                              *)
(***************************************************************************)
add_recent_project(project_path) ==
    LET paths == read_existing_list(recent_file)
        updated == truncate(insert_front(retain(paths, project_path), project_path),
                            MAX_RECENT)
    IN /\ Record("add", project_path)
       /\ app_data_dir' = TRUE
       /\ recent_file' = FileWith(to_string_pretty(updated))
       /\ ret' = Ok(<<>>)
       /\ UNCHANGED <<project_file, projects_dir>>

(***************************************************************************)
(* remove_recent_project (Remove)                                          *)
(***************************************************************************)
RemoveMissingFileIsError == Err("Failed to read recent projects")

\* what remove_recent_project returns when recent_projects.json is absent
remove_missing_file == Ok(<<>>)

remove_recent_project(project_path) ==
    /\ Record("remove", project_path)
    /\ IF ~recent_file.exists
       THEN /\ ret' = remove_missing_file
            /\ UNCHANGED recent_file
       ELSE LET paths == unwrap_or_default(from_str(recent_file.content))
            IN /\ recent_file' = FileWith(to_string_pretty(retain(paths, project_path)))
               /\ ret' = Ok(<<>>)
    /\ UNCHANGED <<app_data_dir, project_file, projects_dir>>

NextRegistry ==
    \/ \E p \in Paths : add_recent_project(p)
    \/ \E p \in RemoveArgs : remove_recent_project(p)

SpecRegistry == InitRegistry /\ [][NextRegistry]_vars

(***************************************************************************)
(* list_recent_projects (List), commands.rs                                *)
(***************************************************************************)
\* PathBuf::from(p).join(PROJECT_FILE).exists()
has_project_file(p) == p \in project_file

list_recent_projects ==
    /\ Record("list", 0)
    /\ IF ~recent_file.exists
       THEN ret' = Ok(<<>>)
       ELSE LET parsed == from_str(recent_file.content)
            IN IF ~parsed.ok
               THEN ret' = Err("Failed to parse recent projects")
               ELSE ret' = Ok(SelectSeq(parsed.val, has_project_file))
    /\ UNCHANGED <<app_data_dir, recent_file, project_file, projects_dir>>

(***************************************************************************)
(* list_recent_projects, lib.rs: the command that run() registers.         *)
(***************************************************************************)
\* the orders in which fs::read_dir may yield the entries of a directory
ReadDirOrders(entries) ==
    {order \in [1..Cardinality(entries) -> entries] :
        \A i, j \in 1..Cardinality(entries) : order[i] = order[j] => i = j}

lib_list_recent_projects ==
    /\ Record("lib_list", 0)
    \* get_projects_dir: create_dir_all(<app data>/projects) when it is absent
    /\ app_data_dir' = TRUE
    /\ projects_dir' = TRUE
    /\ \E order \in ReadDirOrders(IF projects_dir THEN ProjectsDirChildren ELSE {}) :
            ret' = Ok(SelectSeq(order, has_project_file))
    /\ UNCHANGED <<recent_file, project_file>>

(***************************************************************************)
(* The files list_recent_projects may find: what add_recent_project and    *)
(* remove_recent_project write, and what a write that was cut short leaves *)
(* behind (a proper prefix of the text).                                   *)
(***************************************************************************)
ListsOver(S) ==
    {list \in UNION {[1..n -> S] : n \in 0..Cardinality(S)} :
        \A i, j \in 1..Len(list) : list[i] = list[j] => i = j}

WrittenTexts == {to_string_pretty(list) : list \in ListsOver(ListPaths)}

CutShortTexts ==
    UNION {{SubSeq(text, 1, n) : n \in 0..(Len(text) - 1)} : text \in WrittenTexts}

InitList ==
    /\ app_data_dir \in BOOLEAN
    /\ projects_dir \in BOOLEAN
    /\ projects_dir => app_data_dir
    /\ recent_file \in {AbsentFile} \cup {FileWith(text) : text \in WrittenTexts \cup CutShortTexts}
    /\ recent_file.exists => app_data_dir
    /\ project_file \in SUBSET ListPaths
    /\ (project_file \cap ProjectsDirChildren /= {}) => projects_dir
    /\ start = recent_file
    /\ ops = 0
    /\ hist = <<>>
    /\ pre = Persisted
    /\ ret = Ok(<<>>)
    /\ RaceIdle
    /\ CodecIdle
    /\ StoreIdle

NextList ==
    \/ list_recent_projects
    \/ lib_list_recent_projects

SpecList == InitList /\ [][NextList]_vars

(***************************************************************************)
(* Mutations of a list that holds stale entries: a list file written       *)
(* earlier, over ListPaths or the full list of MAX_RECENT paths, while     *)
(* project.json exists under any subset of ListPaths.  One mutation runs,  *)
(* then list_recent_projects reads what it left.                           *)
(***************************************************************************)
StaleTexts == WrittenTexts \cup {to_string_pretty(Descending(MAX_RECENT))}

InitStale ==
    /\ app_data_dir = TRUE
    /\ projects_dir = FALSE
    /\ recent_file \in {FileWith(text) : text \in StaleTexts}
    /\ project_file \in SUBSET ListPaths
    /\ start = recent_file
    /\ ops = 0
    /\ hist = <<>>
    /\ pre = Persisted
    /\ ret = Ok(<<>>)
    /\ RaceIdle
    /\ CodecIdle
    /\ StoreIdle

NextStale ==
    \/ /\ hist = <<>>
       /\ \E p \in Paths : add_recent_project(p)
    \/ /\ hist = <<>>
       /\ \E p \in RemoveArgs : remove_recent_project(p)
    \/ /\ hist /= <<>>
       /\ list_recent_projects

SpecStale == InitStale /\ [][NextStale]_vars

(***************************************************************************)
(* Two registry mutations running at the same time.  Each command is a     *)
(* sequence of filesystem calls, and the calls of the two commands         *)
(* interleave in any order:                                                *)
(*   mkdir   app_data_dir.exists(), fs::create_dir_all  (add only)         *)
(*   check   recent_file.exists()                                          *)
(*   read    fs::read_to_string, serde_json::from_str                      *)
(*   create  fs::write, first half: File::create opens the file and        *)
(*           truncates it                                                  *)
(*   write   fs::write, second half: write_all writes the text from        *)
(*           offset 0 of the descriptor it opened                          *)
(***************************************************************************)
\* the list a command serializes from the list it read
updated_paths(pr) ==
    IF pr.op = "add"
    THEN truncate(insert_front(retain(pr.paths, pr.arg), pr.arg), MAX_RECENT)
    ELSE retain(pr.paths, pr.arg)

\* a file after text was written at offset 0: what lay beyond the text stays
write_at_start(content, text) ==
    text \o SubSeq(content, Len(text) + 1, Len(content))

\* a step of a running command leaves the command histories alone
Goto(p, pc) ==
    /\ proc' = [proc EXCEPT ![p].pc = pc]
    /\ UNCHANGED <<project_file, projects_dir, start, ops, hist, pre, ret,
                   codecvars, storevars>>

ensure_app_data_dir(p) ==
    /\ proc[p].pc = "mkdir"
    /\ app_data_dir' = TRUE
    /\ Goto(p, "check")
    /\ UNCHANGED <<recent_file, wlog>>

check_recent_file(p) ==
    /\ proc[p].pc = "check"
    /\ IF recent_file.exists THEN Goto(p, "read")
       ELSE IF proc[p].op = "add"
       THEN Goto(p, "create")
       ELSE Goto(p, "done")
    /\ UNCHANGED <<app_data_dir, recent_file, wlog>>

read_recent_file(p) ==
    /\ proc[p].pc = "read"
    /\ proc' = [proc EXCEPT ![p].pc = "create",
                            ![p].paths = unwrap_or_default(from_str(recent_file.content))]
    /\ UNCHANGED <<app_data_dir, recent_file, wlog>>
    /\ UNCHANGED <<project_file, projects_dir, start, ops, hist, pre, ret,
                   codecvars, storevars>>

create_recent_file(p) ==
    /\ proc[p].pc = "create"
    /\ recent_file' = FileWith(<<>>)
    /\ wlog' = Append(wlog, [proc |-> p, step |-> "create", text |-> <<>>])
    /\ Goto(p, "write")
    /\ UNCHANGED app_data_dir

write_all_recent_file(p) ==
    LET text == to_string_pretty(updated_paths(proc[p]))
    IN /\ proc[p].pc = "write"
       /\ recent_file' = FileWith(write_at_start(recent_file.content, text))
       /\ wlog' = Append(wlog, [proc |-> p, step |-> "write", text |-> text])
       /\ Goto(p, "done")
       /\ UNCHANGED app_data_dir

\* the commands two callers issue at the same time
Mutations ==
    {[op |-> "add", arg |-> r, pc |-> "mkdir", paths |-> <<>>] : r \in Paths}
    \cup {[op |-> "remove", arg |-> r, pc |-> "check", paths |-> <<>>] : r \in RemoveArgs}

InitRace ==
    /\ app_data_dir \in BOOLEAN
    /\ projects_dir = FALSE
    /\ recent_file \in {AbsentFile} \cup {FileWith(text) : text \in StaleTexts}
    /\ recent_file.exists => app_data_dir
    /\ project_file = {}
    /\ start = recent_file
    /\ ops = 0
    /\ hist = <<>>
    /\ pre = Persisted
    /\ ret = Ok(<<>>)
    /\ proc \in [Procs -> Mutations]
    /\ wlog = <<>>
    /\ CodecIdle
    /\ StoreIdle

NextRace ==
    \/ \E p \in Procs : ensure_app_data_dir(p)
    \/ \E p \in Procs : check_recent_file(p)
    \/ \E p \in Procs : read_recent_file(p)
    \/ \E p \in Procs : create_recent_file(p)
    \/ \E p \in Procs : write_all_recent_file(p)

SpecRace == InitRace /\ [][NextRace]_vars

(***************************************************************************)
(* The PNG file and the codec commands.                                    *)
(***************************************************************************)
\* what read_png_rgba returns for the file at the path
read_outcome(file) ==
    IF ~file.exists THEN CodecErr("Failed to open PNG")
    ELSE IF ~file.header THEN CodecErr("Failed to read PNG info")
    ELSE IF file.idat = <<>> THEN CodecErr("Failed to decode PNG frame")
    ELSE LET info == file.ihdr
             frame == unfilter(file.idat, line_size(info), info.height)
         IN IF ~frame.ok THEN CodecErr("Failed to decode PNG frame")
            ELSE IF info.color_type \notin SupportedColorTypes
            THEN CodecErr("Unsupported PNG color type")
            ELSE CodecOk(b64_encode(rgba_pixels(info.color_type, frame.val)),
                         info.width, info.height)

read_png_rgba ==
    /\ clast' = [op |-> "read", b64 |-> <<>>, width |-> 0, height |-> 0]
    /\ cpre' = [png_parent |-> png_parent, png_file |-> png_file]
    /\ cret' = read_outcome(png_file)
    /\ trip' = IF trip.stage = "encoded"
               THEN [trip EXCEPT !.stage = "redecoded"]
               ELSE IF read_outcome(png_file).ok
               THEN [stage |-> "decoded", first |-> read_outcome(png_file),
                     bit_depth |-> png_file.ihdr.bit_depth]
               ELSE NoTrip
    /\ UNCHANGED <<png_parent, png_file, regvars, storevars>>

\* how a build treats u32 overflow: a debug build panics, a release build wraps
Builds == {"debug", "release"}

\* if pixels.len() != expected_len
length_mismatch(pixels, expected) == U32(Len(pixels)) /= expected

\* rows whose color samples were multiplied by alpha / 255 before being stored
RECURSIVE EncodeRowsPremultiplied(_, _)
EncodeRowsPremultiplied(pixels, width) ==
    filter_none([i \in 1..Len(pixels) |->
                    IF i % 4 = 0 THEN pixels[i]
                    ELSE (pixels[i] * pixels[i + 4 - (i % 4)]) \div 255],
                width * 4)

\* writer.write_image_data(&pixels) with FilterType::NoFilter: the image data
\* of the file
encode_rows(pixels, width) == filter_none(pixels, width * 4)

\* File::create moved ahead of the length check: a mismatch leaves an empty
\* file at the path
WriteOutcomeCreatesFirst(file, base64_pixels, width, height, build) ==
    LET pixels == b64_decode(base64_pixels)
        expected == expected_len(width, height)
    IN IF ~pixels.ok THEN [file |-> file, ret |-> CodecErr("Failed to decode base64")]
       ELSE IF expected.overflow /\ build = "debug"
       THEN [file |-> file, ret |-> CodecErr("panic: attempt to multiply with overflow")]
       ELSE IF length_mismatch(pixels.val, expected.val)
       THEN [file |-> CreatedPng, ret |-> CodecErr("Pixel data length mismatch")]
       ELSE IF width = 0 \/ height = 0
       THEN [file |-> CreatedPng, ret |-> CodecErr("Failed to write PNG header")]
       ELSE IF expected.overflow
       THEN [file |-> Png([width |-> width, height |-> height, color_type |-> "Rgba",
                           bit_depth |-> 8], <<>>),
             ret |-> CodecErr("Failed to write PNG data")]
       ELSE [file |-> Png([width |-> width, height |-> height, color_type |-> "Rgba",
                           bit_depth |-> 8],
                          encode_rows(pixels.val, width)),
             ret |-> CodecOk(<<>>, 0, 0)]

\* what write_png_rgba leaves at the path and returns: [file, ret]
write_outcome(file, base64_pixels, width, height, build) ==
    LET pixels == b64_decode(base64_pixels)
        expected == expected_len(width, height)
    IN IF ~pixels.ok THEN [file |-> file, ret |-> CodecErr("Failed to decode base64")]
       ELSE IF expected.overflow /\ build = "debug"
       THEN [file |-> file, ret |-> CodecErr("panic: attempt to multiply with overflow")]
       ELSE IF length_mismatch(pixels.val, expected.val)
       THEN [file |-> file, ret |-> CodecErr("Pixel data length mismatch")]
       ELSE IF width = 0 \/ height = 0
       THEN [file |-> CreatedPng, ret |-> CodecErr("Failed to write PNG header")]
       ELSE IF expected.overflow
       THEN [file |-> Png([width |-> width, height |-> height, color_type |-> "Rgba",
                           bit_depth |-> 8], <<>>),
             ret |-> CodecErr("Failed to write PNG data")]
       ELSE [file |-> Png([width |-> width, height |-> height, color_type |-> "Rgba",
                           bit_depth |-> 8],
                          encode_rows(pixels.val, width)),
             ret |-> CodecOk(<<>>, 0, 0)]

write_png_rgba(base64_pixels, width, height) ==
    \E build \in Builds :
        LET out == write_outcome(png_file, base64_pixels, width, height, build)
        IN /\ clast' = [op |-> "write", b64 |-> base64_pixels, width |-> width,
                        height |-> height]
           /\ cpre' = [png_parent |-> png_parent, png_file |-> png_file]
           \* fs::create_dir_all(parent) comes first
           /\ png_parent' = TRUE
           /\ png_file' = out.file
           /\ cret' = out.ret
           /\ trip' = IF /\ trip.stage = "decoded"
                         /\ base64_pixels = trip.first.b64
                         /\ width = trip.first.width
                         /\ height = trip.first.height
                      THEN [trip EXCEPT !.stage = IF out.ret.ok THEN "encoded"
                                                  ELSE "encode_failed"]
                      ELSE NoTrip
           /\ UNCHANGED <<regvars, storevars>>

(***************************************************************************)
(* The PNG files found on disk: every image of at most MaxPixels pixels in *)
(* the five color types with 8 bits per sample, and every one-pixel image  *)
(* with 16 bits per sample, stored unfiltered.                             *)
(***************************************************************************)
ColorTypes == SupportedColorTypes \cup {"Indexed"}

Shapes == {wh \in (1..MaxPixels) \X (1..MaxPixels) : wh[1] * wh[2] <= MaxPixels}

\* the bytes of the samples: one byte each at depth 8, two at depth 16
RECURSIVE sample_bytes(_, _)
sample_bytes(samples, bit_depth) ==
    IF Len(samples) = 0 THEN <<>>
    ELSE (IF bit_depth = 16 THEN <<Head(samples), Head(samples)>> ELSE <<Head(samples)>>)
         \o sample_bytes(Tail(samples), bit_depth)

SourcePng(color_type, bit_depth, wh, samples) ==
    LET ihdr == [width |-> wh[1], height |-> wh[2], color_type |-> color_type,
                 bit_depth |-> bit_depth]
    IN Png(ihdr, filter_none(sample_bytes(samples, bit_depth), line_size(ihdr)))

BitDepths(wh) == IF wh[1] * wh[2] = 1 THEN {8, 16} ELSE {8}

SourcePngs ==
    UNION {UNION {UNION {{SourcePng(ct, bd, wh, samples) :
                             samples \in [1..(wh[1] * wh[2] * channels(ct)) -> Samples]} :
                         bd \in BitDepths(wh)} :
                  wh \in Shapes} :
           ct \in ColorTypes}

InitCodec ==
    /\ RegistryIdle
    /\ StoreIdle
    /\ png_file \in SourcePngs \cup {NoPng}
    /\ png_parent \in BOOLEAN
    /\ png_file.exists => png_parent
    /\ clast = [op |-> "none", b64 |-> <<>>, width |-> 0, height |-> 0]
    /\ cpre = [png_parent |-> png_parent, png_file |-> png_file]
    /\ cret = CodecErr("")
    /\ trip = NoTrip

\* re-encoding what the last read_png_rgba returned, with its dimensions or
\* with other ones
NextCodec ==
    \/ read_png_rgba
    \/ /\ clast.op = "read" /\ cret.ok
       /\ \E wh \in {<<cret.width, cret.height>>, <<cret.height, cret.width>>,
                     <<cret.width + 1, cret.height>>} :
            write_png_rgba(cret.b64, wh[1], wh[2])

SpecCodec == InitCodec /\ [][NextCodec]_vars

\* the base64 texts a caller passes to write_png_rgba: buffers of every
\* length up to MaxBufLen, and texts that are not base64
EncodeTexts ==
    {b64_encode([i \in 1..n |-> 200]) : n \in 0..MaxBufLen}
    \cup {<<NotBase64, 0, 0, 0>>, <<50, 0, 0>>, <<50, 1, Pad, Pad>>}

\* a file that an earlier write_png_rgba left at the path
EarlierPng == Png([width |-> 1, height |-> 1, color_type |-> "Rgba", bit_depth |-> 8],
                  filter_none(<<200, 0, 200, 0>>, 4))

InitEncode ==
    /\ RegistryIdle
    /\ StoreIdle
    /\ png_file \in {NoPng, CreatedPng, EarlierPng}
    /\ png_parent \in BOOLEAN
    /\ png_file.exists => png_parent
    /\ clast = [op |-> "none", b64 |-> <<>>, width |-> 0, height |-> 0]
    /\ cpre = [png_parent |-> png_parent, png_file |-> png_file]
    /\ cret = CodecErr("")
    /\ trip = NoTrip

\* one write_png_rgba call on each of the initial files, then reads
NextEncode ==
    \/ /\ clast.op = "none"
       /\ \E text \in EncodeTexts, width \in Dims, height \in Dims :
            write_png_rgba(text, width, height)
    \/ /\ clast.op /= "none"
       /\ read_png_rgba

SpecEncode == InitEncode /\ [][NextEncode]_vars

(***************************************************************************)
(* Document store actions.                                                 *)
(***************************************************************************)
\* number of document-store commands executed in one behaviour
MaxStoreOps == 2

\* project roots a caller passes: "/", "/a", "/b", "/a/b", and a path below a
\* map document
Roots == {<<>>, <<"a">>, <<"b">>, <<"a", "b">>, <<"a", "map.json", "b">>}
\* document contents a caller passes
Contents == {"d1", "d2"}
\* new names a caller passes to rename_project: "a", "b", "c", "c/d"
NewNames == {<<"a">>, <<"b">>, <<"c">>, <<"c", "d">>}

Apply(op, root, arg, out) ==
    /\ sops < MaxStoreOps
    /\ sops' = sops + 1
    /\ slast' = [op |-> op, root |-> root, data |-> arg.data, new_name |-> arg.new_name]
    /\ spre' = fs
    /\ fs' = out.fs
    /\ sret' = [ok |-> out.ok, err |-> out.err, val |-> out.val]
    /\ UNCHANGED <<regvars, codecvars>>

DataArg(data) == [data |-> data, new_name |-> <<>>]
NameArg(new_name) == [data |-> "", new_name |-> new_name]

save_project_metadata(project_path, data) ==
    Apply("save_project_metadata", project_path, DataArg(data),
          save_project_metadata_outcome(fs, project_path, data))

save_project_map(project_path, data) ==
    Apply("save_project_map", project_path, DataArg(data),
          save_project_map_outcome(fs, project_path, data))

save_project_settings(project_path, data) ==
    Apply("save_project_settings", project_path, DataArg(data),
          save_project_settings_outcome(fs, project_path, data))

create_project(project_path, metadata) ==
    Apply("create_project", project_path, DataArg(metadata),
          create_project_outcome(fs, project_path, metadata))

rename_project(old_path, new_name) ==
    Apply("rename_project", old_path, NameArg(new_name),
          rename_project_outcome(fs, old_path, new_name))

\* filesystems the commands produce from an empty one: the empty one, one
\* project /a, and projects /a and /b with /b holding an empty directory /b/c
ProjectA == create_project_outcome(EmptyFs, <<"a">>, "d1").fs
ProjectsAB ==
    create_dir_all(save_project_map_outcome(
                       create_project_outcome(ProjectA, <<"b">>, "d2").fs,
                       <<"a">>, "d2").fs,
                   <<"b", "c">>).fs

InitStore ==
    /\ RegistryIdle
    /\ CodecIdle
    /\ fs \in {EmptyFs, ProjectA, ProjectsAB}
    /\ slast = [op |-> "none", root |-> <<>>, data |-> "", new_name |-> <<>>]
    /\ spre = fs
    /\ sret = [ok |-> TRUE, err |-> "", val |-> <<>>]
    /\ sops = 0

NextStore ==
    \/ \E root \in Roots, data \in Contents : save_project_metadata(root, data)
    \/ \E root \in Roots, data \in Contents : save_project_map(root, data)
    \/ \E root \in Roots, data \in Contents : save_project_settings(root, data)
    \/ \E root \in Roots, data \in Contents : create_project(root, data)
    \/ \E root \in Roots, new_name \in NewNames : rename_project(root, new_name)

SpecStore == InitStore /\ [][NextStore]_vars

(***************************************************************************)
(* Properties of the registry.                                             *)
(***************************************************************************)
LastOp == IF hist = <<>> THEN [op |-> "none", arg |-> 0] ELSE hist[Len(hist)]

Parses(file) == file.exists => from_str(file.content).ok

\* the list a file holds; an absent file holds the empty list
PersistedList(file) == IF file.exists THEN from_str(file.content).val ELSE <<>>

Elems(list) == {list[i] : i \in 1..Len(list)}

Without(list, r) == SelectSeq(list, LAMBDA x : x /= r)

FirstN(list, n) == [i \in 1..(IF Len(list) < n THEN Len(list) ELSE n) |-> list[i]]

NoDuplicates(list) == \A i, j \in 1..Len(list) : list[i] = list[j] => i = j

\* C1: after add_recent_project(r) the persisted list is the first 10 elements
\* of <<r>> followed by the old list without r; add(A), add(B), add(A) on an
\* absent file leaves <<A, B>>; adding an 11th distinct path to a full list
\* drops exactly its last entry.
C1_TouchResult ==
    LastOp.op = "add" =>
        LET r == LastOp.arg
            old == PersistedList(pre.recent_file)
            new == PersistedList(recent_file)
        IN /\ ret.ok
           /\ recent_file.exists /\ Parses(recent_file)
           /\ new = FirstN(<<r>> \o Without(old, r), 10)
           /\ (/\ start = AbsentFile
               /\ Len(hist) = 3
               /\ hist[1].op = "add" /\ hist[2].op = "add"
               /\ hist[1].arg = r /\ hist[2].arg /= r)
              => new = <<r, hist[2].arg>>
           /\ (Len(old) = 10 /\ NoDuplicates(old) /\ r \notin Elems(old))
              => new = <<r>> \o SubSeq(old, 1, 9)

\* add(1), add(2), add(1) has run on an absent file
C1_Witness ==
    /\ start = AbsentFile
    /\ hist = <<[op |-> "add", arg |-> 1], [op |-> "add", arg |-> 2],
                [op |-> "add", arg |-> 1]>>
    /\ PersistedList(recent_file) = <<1, 2>>

\* C2: after any sequence of add_recent_project and remove_recent_project calls
\* from an absent file the persisted list has no path twice and at most 10
\* entries.
C2_UniqueAndBounded ==
    /\ Parses(recent_file)
    /\ NoDuplicates(PersistedList(recent_file))
    /\ Len(PersistedList(recent_file)) <= 10

\* an 11th distinct path has been added to a list of 10
C2_Witness ==
    /\ LastOp.op = "add"
    /\ Len(PersistedList(pre.recent_file)) = 10
    /\ LastOp.arg \notin Elems(PersistedList(pre.recent_file))
    /\ Len(PersistedList(recent_file)) = 10

\* C5: remove_recent_project(r) succeeds and leaves the old list with r
\* deleted, the rest in order; a path not in the list leaves it unchanged, an
\* absent file is no error, and a second remove of r changes nothing.
C5_RemoveResult ==
    LastOp.op = "remove" =>
        LET r == LastOp.arg
            old == PersistedList(pre.recent_file)
            new == PersistedList(recent_file)
            n == Len(hist)
        IN /\ ret.ok
           /\ Parses(recent_file)
           /\ new = Without(old, r)
           /\ r \notin Elems(old) => new = old
           /\ ~pre.recent_file.exists => recent_file = pre.recent_file
           /\ (n >= 2 /\ hist[n - 1] = hist[n]) => new = old

\* remove(1) has run twice in a row on a list that held 1
C5_Witness ==
    /\ Len(hist) >= 2
    /\ hist[Len(hist)] = [op |-> "remove", arg |-> 1]
    /\ hist[Len(hist) - 1] = [op |-> "remove", arg |-> 1]
    /\ 1 \in Elems(PersistedList(start))
    /\ 1 \notin Elems(PersistedList(recent_file))

\* C3: list_recent_projects returns exactly the entries of the persisted list
\* whose project root holds project.json, in stored order, and leaves the list
\* file and all other persisted state unchanged.
C3_ListFiltersAndPreserves ==
    (LastOp.op \in {"list", "lib_list"} /\ Parses(pre.recent_file)) =>
        /\ ret.ok
        /\ ret.val = SelectSeq(PersistedList(pre.recent_file),
                               LAMBDA p : p \in pre.project_file)
        /\ Persisted = pre

\* C4: when recent_projects.json exists but does not parse,
\* list_recent_projects returns the empty list as a success.
C4_CorruptListsEmpty ==
    (LastOp.op = "list" /\ pre.recent_file.exists /\ ~Parses(pre.recent_file)) =>
        /\ ret.ok
        /\ ret.val = <<>>

\* C11, as stated: after add_recent_project(r) or remove_recent_project(r)
\* the persisted list holds no entry, other than the r just added, whose
\* project root lacked project.json when the call was made.
C11_MutationPrunesStale ==
    LastOp.op \in {"add", "remove"} =>
        \A e \in Elems(PersistedList(recent_file)) :
            \/ e \in pre.project_file
            \/ LastOp.op = "add" /\ e = LastOp.arg

\* C11, amended: add_recent_project and remove_recent_project never consult
\* project.json.  The list they persist is the first 10 of <<r>> followed by
\* the old list without r, respectively the old list without r, whatever
\* entries are stale; every stale entry other than r that is among the first
\* 9 (add) or anywhere (remove) in the rest of the old list is still
\* persisted, and the set of valid projects is as it was.
C11_MutationKeepsStale ==
    LastOp.op \in {"add", "remove"} =>
        LET r == LastOp.arg
            old == PersistedList(pre.recent_file)
            new == PersistedList(recent_file)
            kept == Without(old, r)
            room == IF LastOp.op = "add" THEN 9 ELSE 10
        IN /\ Parses(recent_file)
           /\ new = IF LastOp.op = "add" THEN FirstN(<<r>> \o kept, 10) ELSE kept
           /\ \A i \in 1..Len(kept) :
                (i <= room /\ kept[i] \notin pre.project_file) => kept[i] \in Elems(new)
           /\ project_file = pre.project_file

\* an 11th path has been added to a full list whose only valid entry was its
\* last: the valid entry is gone and the 9 stale ones still fill the list
C11_Witness ==
    /\ LastOp = [op |-> "add", arg |-> 11]
    /\ pre.project_file = {1}
    /\ PersistedList(pre.recent_file) = Descending(MAX_RECENT)
    /\ PersistedList(recent_file) = <<11>> \o SubSeq(Descending(MAX_RECENT), 1, 9)

AllDone == \A p \in Procs : proc[p].pc = "done"

\* the text of the write_all step that happened last
LastWritten == wlog[Len(wlog)].text

\* C12: when two mutations run at the same time with their steps interleaved
\* in any order, then once both have returned the list file holds exactly the
\* text of the write that happened last, and in every state the list read from
\* the file has no path twice and at most 10 entries.
C12_LastWriteWins ==
    /\ (AllDone /\ wlog /= <<>>) => recent_file = FileWith(LastWritten)
    /\ NoDuplicates(read_existing_list(recent_file))
    /\ Len(read_existing_list(recent_file)) <= 10

\* no other step on the list file came between the File::create and the
\* write_all of one fs::write
WritesApart ==
    \A i \in 1..Len(wlog) :
        (wlog[i].step = "create" /\ i < Len(wlog)) =>
            /\ wlog[i + 1].proc = wlog[i].proc
            /\ wlog[i + 1].step = "write"

\* when the two fs::write calls did not overlap, the last write wins
LastWriteWinsWhenWritesApart ==
    (AllDone /\ wlog /= <<>> /\ WritesApart) => recent_file = FileWith(LastWritten)

(***************************************************************************)
(* Properties of the pixel codec.                                          *)
(***************************************************************************)
\* len = width * height * 4 over the integers, without forming the product
LenIsProduct(len, width, height) ==
    IF width = 0 \/ height = 0 THEN len = 0
    ELSE /\ len % 4 = 0
         /\ (len \div 4) % width = 0
         /\ (len \div 4) \div width = height

\* C6: write_png_rgba fails with the length-mismatch error whenever the buffer
\* length differs from width * height * 4 taken over the integers, also when
\* that product is 2^32 or more.
C6_MismatchAlwaysRejected ==
    (/\ clast.op = "write"
     /\ b64_decode(clast.b64).ok
     /\ ~LenIsProduct(Len(b64_decode(clast.b64).val), clast.width, clast.height))
    => cret.err = "Pixel data length mismatch"

\* the file read is a complete unfiltered image with 8-bit samples
IsSource8(file) ==
    /\ file.exists /\ file.header
    /\ file.ihdr.bit_depth = 8
    /\ file.ihdr.width >= 1 /\ file.ihdr.height >= 1
    /\ Len(file.idat) = file.ihdr.height * (line_size(file.ihdr) + 1)

\* sample k of pixel i (both from 1) of the image in the file
SourceSample(file, i, k) ==
    LET w == file.ihdr.width
        ch == channels(file.ihdr.color_type)
        row == (i - 1) \div w
        col == (i - 1) % w
    IN file.idat[row * (w * ch + 1) + 1 + col * ch + k]

\* the RGBA pixel the claim assigns to pixel i of the source
ExpectedPixel(file, i) ==
    CASE file.ihdr.color_type = "Rgba" ->
            <<SourceSample(file, i, 1), SourceSample(file, i, 2),
              SourceSample(file, i, 3), SourceSample(file, i, 4)>>
      [] file.ihdr.color_type = "Rgb" ->
            <<SourceSample(file, i, 1), SourceSample(file, i, 2),
              SourceSample(file, i, 3), 255>>
      [] file.ihdr.color_type = "GrayscaleAlpha" ->
            <<SourceSample(file, i, 1), SourceSample(file, i, 1),
              SourceSample(file, i, 1), SourceSample(file, i, 2)>>
      [] file.ihdr.color_type = "Grayscale" ->
            <<SourceSample(file, i, 1), SourceSample(file, i, 1),
              SourceSample(file, i, 1), 255>>

MismatchReturned == clast.op = "write" /\ cret.err = "Pixel data length mismatch"

\* C13, as stated: whenever write_png_rgba fails with the length mismatch the
\* filesystem is as it was before the call: the file at the path is neither
\* created nor truncated and no parent directory has been created.
C13_MismatchLeavesFilesystem ==
    MismatchReturned =>
        /\ png_file = cpre.png_file
        /\ png_parent = cpre.png_parent

\* C13, amended: the length check comes before File::create but after
\* create_dir_all(parent).  Whenever write_png_rgba fails with the length
\* mismatch the file at the path is as it was, neither created nor truncated,
\* and the parent directory exists: it has been created if it was missing.
C13_MismatchLeavesFile ==
    MismatchReturned =>
        /\ png_file = cpre.png_file
        /\ png_parent

\* a mismatch was returned for a path whose parent directory was missing: the
\* directory is there now and the file is not
C13_Witness ==
    /\ MismatchReturned
    /\ ~cpre.png_parent
    /\ png_parent
    /\ png_file = NoPng

(***************************************************************************)
(* Properties of the document store.                                       *)
(***************************************************************************)
\* the root does not exist before the call and nothing on the way to it is a
\* regular file, so the directory can be created
Creatable(f, root) ==
    /\ root \notin DOMAIN f
    /\ \A q \in Prefixes(root) : q \in DOMAIN f => f[q].kind = "dir"

HoldsFile(f, root, name, data) ==
    /\ is_dir(f, root)
    /\ join(root, <<name>>) \in DOMAIN f
    /\ f[join(root, <<name>>)] = File(data)

HasAssets(f, root) == is_dir(f, join(root, <<"assets">>))

\* the map and settings commands create the root and their file
MapAndSettingsCreate ==
    /\ (slast.op = "save_project_map" /\ Creatable(spre, slast.root)) =>
          sret.ok /\ HoldsFile(fs, slast.root, "map.json", slast.data)
    /\ (slast.op = "save_project_settings" /\ Creatable(spre, slast.root)) =>
          sret.ok /\ HoldsFile(fs, slast.root, "settings.json", slast.data)

\* C9 as stated: save_project_metadata on a root that does not exist creates
\* the root directory, an assets subdirectory and project.json with the given
\* content, so that the root is a valid project; the map and settings
\* commands create the root and their file.
C9_MetadataCreatesAssets ==
    /\ (slast.op = "save_project_metadata" /\ Creatable(spre, slast.root)) =>
          /\ sret.ok
          /\ HoldsFile(fs, slast.root, "project.json", slast.data)
          /\ HasAssets(fs, slast.root)
          /\ is_valid_project(fs, slast.root)
    /\ MapAndSettingsCreate

\* C9 amended: save_project_metadata on a root that does not exist creates
\* the root directory and project.json with the given content, so that the
\* root is a valid project, and no assets subdirectory; create_project creates
\* root, assets and project.json in one call; the map and settings commands
\* create the root and their file.
C9_AssetsOnlyFromCreateProject ==
    /\ (slast.op = "save_project_metadata" /\ Creatable(spre, slast.root)) =>
          /\ sret.ok
          /\ HoldsFile(fs, slast.root, "project.json", slast.data)
          /\ ~path_exists(fs, join(slast.root, <<"assets">>))
          /\ is_valid_project(fs, slast.root)
    /\ (slast.op = "create_project" /\ Creatable(spre, slast.root)) =>
          /\ sret.ok
          /\ HoldsFile(fs, slast.root, "project.json", slast.data)
          /\ HasAssets(fs, slast.root)
          /\ is_valid_project(fs, slast.root)
    /\ MapAndSettingsCreate

\* save_project_metadata has created /a/b and its project.json where /a did
\* not exist
C9_Witness ==
    /\ slast.op = "save_project_metadata"
    /\ slast.root = <<"a", "b">>
    /\ <<"a">> \notin DOMAIN spre
    /\ sret.ok
    /\ fs[<<"a", "b", "project.json">>] = File(slast.data)

\* C10: rename_project fails with the already-exists error when
\* parent(root)/newName is occupied and with the no-parent error when root has
\* no parent, leaving the filesystem unchanged in both cases; on success root
\* no longer exists, its former contents are at the returned sibling path, and
\* that path is a valid project iff root was one.
C10_RenameProject ==
    slast.op = "rename_project" =>
        LET root == slast.root
            dest == parent_of(root) \o slast.new_name
        IN /\ ~has_parent(root) =>
                /\ ~sret.ok /\ sret.err = "Cannot get parent directory"
                /\ fs = spre
           /\ (has_parent(root) /\ dest \in DOMAIN spre) =>
                /\ ~sret.ok /\ sret.err = "Folder already exists"
                /\ fs = spre
           /\ sret.ok =>
                /\ sret.val = dest
                /\ root \notin DOMAIN fs
                /\ \A q \in DOMAIN spre :
                      IF IsPrefix(root, q)
                      THEN /\ Rebase(q, root, dest) \in DOMAIN fs
                           /\ fs[Rebase(q, root, dest)] = spre[q]
                      ELSE q \in DOMAIN fs /\ fs[q] = spre[q]
                /\ Cardinality(DOMAIN fs) = Cardinality(DOMAIN spre)
                /\ is_valid_project(fs, dest) <=> is_valid_project(spre, root)

\* the project /a, with its documents, has been renamed to /c
C10_Witness ==
    /\ slast.op = "rename_project"
    /\ slast.root = <<"a">>
    /\ slast.new_name = <<"c">>
    /\ sret.ok
    /\ is_valid_project(spre, <<"a">>)
    /\ <<"a", "map.json">> \in DOMAIN spre
    /\ is_valid_project(fs, <<"c">>)
    /\ <<"b">> \in DOMAIN fs

====
